---- MODULE Spec2Model ----
(***************************************************************************)
(* github-sbom-generator: the generate command (cli/generate.go).          *)
(*                                                                         *)
(* A Go string is a sequence of tokens.  Every punctuation character is a  *)
(* token of its own (".", "/", ":", "#", "@") and a maximal run of letters *)
(* and digits is one token, so the prefix, suffix and substring operations *)
(* of package strings act on token sequences as they act on characters.    *)
(* "%2E" is one token, the percent-escape of ".".                          *)
(***************************************************************************)
EXTENDS Integers, Sequences, FiniteSets, TLC

VARIABLES
  args,          \* the repository arguments of the command line
  outputFormat,  \* the --format flag
  git,           \* version-control metadata of the local working copy
  disk,          \* directory name -> file tree, for every directory that exists
  pc,            \* position of generateCmd.RunE / the process
  idx,           \* index into args of the repository parse handles next
  allRepos,      \* RunE's allRepos
  packages,      \* buildSbom's packages
  stdout,        \* documents written to os.Stdout
  trace,         \* network and filesystem accesses, in the order made
  tmpCount,      \* number of temporary directories created so far
  err,           \* the error the process ended with
  results,       \* results of repeated license detection on allRepos[1]
  walk,          \* entries fs.WalkDir hands to the callback, in order
  wi,            \* index into walk of the entry visited next
  licenses,      \* the callback's accumulated findings
  detected,      \* <<declared, concluded>> returned by getLicenseFromReader
  lpc            \* position of getLicenseFromReader

vars == <<args, outputFormat, git, disk, pc, idx, allRepos, packages, stdout,
          trace, tmpCount, err, results, walk, wi, licenses, detected, lpc>>

runVars == <<args, outputFormat, git, disk, pc, idx, allRepos, packages,
             stdout, trace, tmpCount, err, results>>

licVars == <<walk, wi, licenses, detected, lpc>>

\* Bounds of the model.
MaxArgs == 2
MaxFiles == 3
MaxCalls == 2

coverageThreshold == 75

unknownLicenseType == <<"UNKNOWN">>

(***************************************************************************)
(* package strings                                                         *)
(***************************************************************************)
HasPrefix(s, p) == Len(p) <= Len(s) /\ SubSeq(s, 1, Len(p)) = p

HasSuffix(s, p) == Len(p) <= Len(s) /\ SubSeq(s, Len(s) - Len(p) + 1, Len(s)) = p

TrimSuffix(s, p) == IF HasSuffix(s, p) THEN SubSeq(s, 1, Len(s) - Len(p)) ELSE s

\* 1-based position of the first occurrence of p in s, 0 when there is none
Index(s, p) ==
  LET occ == {k \in 1..(Len(s) - Len(p) + 1) : SubSeq(s, k, k + Len(p) - 1) = p}
  IN IF occ = {} THEN 0 ELSE CHOOSE k \in occ : \A j \in occ : k <= j

LastIndex(s, p) ==
  LET occ == {k \in 1..(Len(s) - Len(p) + 1) : SubSeq(s, k, k + Len(p) - 1) = p}
  IN IF occ = {} THEN 0 ELSE CHOOSE k \in occ : \A j \in occ : k >= j

Contains(s, p) == Index(s, p) # 0

\* strings.Replace(s, old, new, 1)
Replace1(s, old, new) ==
  LET k == Index(s, old)
  IN IF k = 0 THEN s
     ELSE SubSeq(s, 1, k - 1) \o new \o SubSeq(s, k + Len(old), Len(s))

\* strings.Cut
Cut(s, sep) ==
  LET k == Index(s, sep)
  IN IF k = 0 THEN [before |-> s, after |-> <<>>, found |-> FALSE]
     ELSE [before |-> SubSeq(s, 1, k - 1),
           after |-> SubSeq(s, k + Len(sep), Len(s)), found |-> TRUE]

RECURSIVE Join(_, _)
Join(elems, sep) ==
  IF elems = <<>> THEN <<>>
  ELSE IF Len(elems) = 1 THEN elems[1]
  ELSE elems[1] \o sep \o Join(Tail(elems), sep)

(***************************************************************************)
(* package net/url                                                         *)
(***************************************************************************)
LetterWords == {"https", "http", "git", "github", "gitlab", "com", "foo", "bar",
                "repo", "abc123", "v1", "archive", "tar", "gz"}

DigitWords == {"1", "2", "3"}

NoURL == [Scheme |-> <<>>, Opaque |-> <<>>, User |-> <<>>, Host |-> <<>>,
          Path |-> <<>>, Fragment |-> <<>>]

\* getScheme: [err, scheme, rest]
RECURSIVE getSchemeFrom(_, _)
getSchemeFrom(rawURL, k) ==
  IF k > Len(rawURL) THEN [err |-> FALSE, scheme |-> <<>>, rest |-> rawURL]
  ELSE IF rawURL[k] \in LetterWords THEN getSchemeFrom(rawURL, k + 1)
  ELSE IF rawURL[k] \in DigitWords \cup {"+", "-", "."}
       THEN IF k = 1 THEN [err |-> FALSE, scheme |-> <<>>, rest |-> rawURL]
            ELSE getSchemeFrom(rawURL, k + 1)
  ELSE IF rawURL[k] = ":"
       THEN IF k = 1 THEN [err |-> TRUE, scheme |-> <<>>, rest |-> rawURL]
            ELSE [err |-> FALSE, scheme |-> SubSeq(rawURL, 1, k - 1),
                  rest |-> SubSeq(rawURL, k + 1, Len(rawURL))]
  ELSE [err |-> FALSE, scheme |-> <<>>, rest |-> rawURL]

getScheme(rawURL) == getSchemeFrom(rawURL, 1)

\* unescape: a percent-escape is replaced by the character it encodes
unescape(s) == [k \in 1..Len(s) |-> IF s[k] = "%2E" THEN "." ELSE s[k]]

\* validOptionalPort, on what follows the host name
validOptionalPort(port) ==
  \/ port = <<>>
  \/ /\ port[1] = ":"
     /\ \A k \in 2..Len(port) : port[k] \in DigitWords

\* parseAuthority: [err, user, host]
parseAuthority(authority) ==
  LET at == LastIndex(authority, <<"@">>)
      host == IF at = 0 THEN authority ELSE SubSeq(authority, at + 1, Len(authority))
      user == IF at = 0 THEN <<>> ELSE SubSeq(authority, 1, at - 1)
      colon == LastIndex(host, <<":">>)
  IN [err |-> colon # 0 /\ ~validOptionalPort(SubSeq(host, colon, Len(host))),
      user |-> user, host |-> host]

\* url.Parse: [err, url]
urlParse(rawURL) ==
  LET cut == Cut(rawURL, <<"#">>)
      u == cut.before
      frag == cut.after
      sch == getScheme(u)
      rest == sch.rest
      rootless == ~HasPrefix(rest, <<"/">>)
      hasAuthority == /\ (sch.scheme # <<>> \/ ~HasPrefix(rest, <<"/", "/", "/">>))
                      /\ HasPrefix(rest, <<"/", "/">>)
      afterSlashes == SubSeq(rest, 3, Len(rest))
      slash == Index(afterSlashes, <<"/">>)
      authority == IF slash = 0 THEN afterSlashes ELSE SubSeq(afterSlashes, 1, slash - 1)
      pathRest == IF ~hasAuthority THEN rest
                  ELSE IF slash = 0 THEN <<>>
                  ELSE SubSeq(afterSlashes, slash, Len(afterSlashes))
      auth == parseAuthority(authority)
  IN IF sch.err THEN [err |-> TRUE, url |-> NoURL]
     ELSE IF rootless /\ sch.scheme # <<>>
          THEN [err |-> FALSE,
                url |-> [NoURL EXCEPT !.Scheme = sch.scheme, !.Opaque = rest,
                                      !.Fragment = unescape(frag)]]
     ELSE IF rootless /\ Contains(Cut(rest, <<"/">>).before, <<":">>)
          THEN [err |-> TRUE, url |-> NoURL]
     ELSE IF hasAuthority /\ auth.err THEN [err |-> TRUE, url |-> NoURL]
     ELSE [err |-> FALSE,
           url |-> [Scheme |-> sch.scheme, Opaque |-> <<>>,
                    User |-> IF hasAuthority THEN auth.user ELSE <<>>,
                    Host |-> IF hasAuthority THEN auth.host ELSE <<>>,
                    Path |-> unescape(pathRest),
                    Fragment |-> unescape(frag)]]

\* filepath.Base on a slash-separated path
Base(path) ==
  LET RECURSIVE strip(_)
      strip(p) == IF p # <<>> /\ p[Len(p)] = "/" THEN strip(SubSeq(p, 1, Len(p) - 1)) ELSE p
      p == strip(path)
      k == LastIndex(p, <<"/">>)
  IN IF path = <<>> THEN <<".">>
     ELSE IF p = <<>> THEN <<"/">>
     ELSE SubSeq(p, k + 1, Len(p))

\* githubUrlToDownload without the trimming of ".git"
githubUrlToDownloadKeepGit(u) ==
  [Path |-> u.Path,
   download |-> u.Scheme \o <<":", "/", "/">> \o u.Host \o u.Path
                \o <<"/", "archive", "/">> \o u.Fragment \o <<".", "tar", ".", "gz">>]

\* githubUrlToDownload: the new value of u.Path and the string returned
githubUrlToDownload(u) ==
  LET path == TrimSuffix(u.Path, <<".", "git">>)
  IN [Path |-> path,
      download |-> u.Scheme \o <<":", "/", "/">> \o u.Host \o path
                   \o <<"/", "archive", "/">> \o u.Fragment \o <<".", "tar", ".", "gz">>]

(***************************************************************************)
(* File trees.  A path is the sequence of its segments.  The k-th file of  *)
(* a tree lies under the top-level directory Top[k], so that the order of  *)
(* the sequence is the lexical order in which fs.WalkDir visits the tree.  *)
(***************************************************************************)
Top == <<"a", "b", "c", "d", "e", "f">>

MIT == <<"MIT">>
Apache == <<"Apache-2.0">>
GPL == <<"GPL-2.0">>

\* the recognized license-file names (a table of the package)
licenseFileNames == {"LICENSE", "LICENSE.txt", "LICENSE.md", "COPYING", "COPYING.txt"}

\* the files a tree is made of: where the file lies below its top-level
\* directory, its name and type, whether it can be opened, and what
\* licensecheck.Scan returns for its content
FileKinds ==
  { [rel |-> <<>>, name |-> "LICENSE", type |-> "file", readable |-> TRUE,
     Percent |-> 100, Match |-> <<MIT>>],
    [rel |-> <<>>, name |-> "LICENSE", type |-> "file", readable |-> TRUE,
     Percent |-> 75, Match |-> <<Apache>>],
    [rel |-> <<>>, name |-> "COPYING", type |-> "file", readable |-> TRUE,
     Percent |-> 50, Match |-> <<Apache>>],
    [rel |-> <<>>, name |-> "LICENSE.txt", type |-> "file", readable |-> TRUE,
     Percent |-> 0, Match |-> <<>>],
    [rel |-> <<>>, name |-> "COPYING", type |-> "file", readable |-> TRUE,
     Percent |-> 90, Match |-> <<Apache, MIT>>],
    [rel |-> <<"vendor", "pkg">>, name |-> "LICENSE", type |-> "file", readable |-> TRUE,
     Percent |-> 100, Match |-> <<GPL>>],
    [rel |-> <<>>, name |-> "README.md", type |-> "file", readable |-> TRUE,
     Percent |-> 100, Match |-> <<MIT>>],
    [rel |-> <<>>, name |-> "LICENSE", type |-> "symlink", readable |-> TRUE,
     Percent |-> 100, Match |-> <<GPL>>],
    [rel |-> <<>>, name |-> "LICENSE", type |-> "file", readable |-> FALSE,
     Percent |-> 100, Match |-> <<MIT>>] }

SeqsUpTo(S, n) == UNION {[1..m -> S] : m \in 0..n}

\* a tree: whether it holds a .git directory, and its files
Trees == [git : BOOLEAN, files : SeqsUpTo(FileKinds, MaxFiles)]

EmptyTree == [git |-> FALSE, files |-> <<>>]

DirEntry(path) == [path |-> path, type |-> "dir", readable |-> TRUE,
                   Percent |-> 0, Match |-> <<>>]

RECURSIVE DirsBelow(_, _, _)
DirsBelow(base, rel, k) ==
  IF k > Len(rel) THEN <<>>
  ELSE <<DirEntry(base \o SubSeq(rel, 1, k))>> \o DirsBelow(base, rel, k + 1)

RECURSIVE FileEntries(_, _)
FileEntries(files, k) ==
  IF k > Len(files) THEN <<>>
  ELSE LET f == files[k]
       IN <<DirEntry(<<Top[k]>>)>> \o DirsBelow(<<Top[k]>>, f.rel, 1)
          \o <<[path |-> <<Top[k]>> \o f.rel \o <<f.name>>, type |-> f.type,
                readable |-> f.readable, Percent |-> f.Percent, Match |-> f.Match]>>
          \o FileEntries(files, k + 1)

\* the entries fs.WalkDir visits below the root, in order
Entries(tree) ==
  (IF tree.git
   THEN <<DirEntry(<<".git">>),
          [path |-> <<".git", "COPYING">>, type |-> "file", readable |-> TRUE,
           Percent |-> 100, Match |-> <<GPL>>]>>
   ELSE <<>>)
  \o FileEntries(tree.files, 1)

(***************************************************************************)
(* getLicenseFromReader                                                    *)
(***************************************************************************)
\* filepath.Dir, split at the separator
DirParts(path) == IF Len(path) = 1 THEN <<".">> ELSE SubSeq(path, 1, Len(path) - 1)

\* the file is one whose content is scanned
Scanned(e) ==
  /\ ~(e.path = <<".git">> \/ (Len(e.path) > 1 /\ e.path[1] = ".git"))
  /\ e.type = "file"
  /\ e.path[Len(e.path)] \in licenseFileNames
  /\ \A k \in 1..Len(DirParts(e.path)) : DirParts(e.path)[k] # "vendor"

\* what the scan of one file appends to licenses
Findings(e) ==
  (IF e.Percent < coverageThreshold THEN <<unknownLicenseType>> ELSE <<>>) \o e.Match

\* the callback of fs.WalkDir: [err, licenses]
WalkFn(lic, e) ==
  IF ~Scanned(e) THEN [err |-> FALSE, licenses |-> lic]
  ELSE IF ~e.readable THEN [err |-> TRUE, licenses |-> lic]
  ELSE [err |-> FALSE, licenses |-> lic \o Findings(e)]

\* the loop that makes the findings unique: m is the set of keys of the map
RECURSIVE UniqueFrom(_, _, _, _)
UniqueFrom(lic, k, m, uniqueLicenses) ==
  IF k > Len(lic) THEN uniqueLicenses
  ELSE IF lic[k] \in m THEN UniqueFrom(lic, k + 1, m, uniqueLicenses)
  ELSE UniqueFrom(lic, k + 1, m \cup {lic[k]}, Append(uniqueLicenses, lic[k]))

\* the loop that makes the findings unique, keeping the last occurrence
RECURSIVE UniqueKeepLast(_)
UniqueKeepLast(lic) ==
  IF lic = <<>> THEN <<>>
  ELSE IF \E k \in 2..Len(lic) : lic[k] = lic[1] THEN UniqueKeepLast(Tail(lic))
  ELSE <<lic[1]>> \o UniqueKeepLast(Tail(lic))

Unique(lic) == UniqueFrom(lic, 1, {}, <<>>)

\* the loop that picks the concluded license
RECURSIVE ConcludedFrom(_, _)
ConcludedFrom(uniqueLicenses, k) ==
  IF k > Len(uniqueLicenses) THEN <<>>
  ELSE IF uniqueLicenses[k] # unknownLicenseType THEN uniqueLicenses[k]
  ELSE ConcludedFrom(uniqueLicenses, k + 1)

\* the end of getLicenseFromReader: <<declared, concluded>>
Reduce(lic) ==
  IF Len(lic) = 0 THEN <<<<>>, <<>>>>
  ELSE LET uniqueLicenses == Unique(lic)
           licensesDeclared == Join(uniqueLicenses, <<" AND ">>)
           found == ConcludedFrom(uniqueLicenses, 1)
           licenseConcluded == IF found = <<>> THEN unknownLicenseType ELSE found
       IN <<licensesDeclared, licenseConcluded>>

\* the whole walk: [err, licenses]
RECURSIVE WalkFrom(_, _, _)
WalkFrom(entries, k, lic) ==
  IF k > Len(entries) THEN [err |-> FALSE, licenses |-> lic]
  ELSE LET r == WalkFn(lic, entries[k])
       IN IF r.err THEN r ELSE WalkFrom(entries, k + 1, r.licenses)

\* what getLicenseFromReader returns for a directory of the disk: a
\* directory that does not exist makes the walk fail at its root
Detect(dsk, dir) ==
  IF dir \notin DOMAIN dsk THEN <<<<>>, <<>>>>
  ELSE LET w == WalkFrom(Entries(dsk[dir]), 1, <<>>)
       IN IF w.err THEN <<<<>>, <<>>>> ELSE Reduce(w.licenses)

(***************************************************************************)
(* The inputs of a run and its environment                                 *)
(***************************************************************************)
GithubHost == <<"github", ".", "com">>

HTTPSGithub == <<"https", ":", "/", "/">> \o GithubHost

FooBar == <<"/", "foo", "/", "bar">>

DotGit == <<".", "git">>

\* https://github.com/foo/bar#v1.2.3
ArgBar == HTTPSGithub \o FooBar \o <<"#", "v1", ".", "2", ".", "3">>

\* https://github.com/foo/bar.git#abc123
ArgBarGit == HTTPSGithub \o FooBar \o DotGit \o <<"#", "abc123">>

\* https://github.com/foo/bar#v1%2E2
ArgEscaped == HTTPSGithub \o FooBar \o <<"#", "v1", "%2E", "2">>

\* https://github.com#v1.2.3
ArgNoPath == HTTPSGithub \o <<"#", "v1", ".", "2", ".", "3">>

\* github.com/foo/bar#v1.2.1
ArgNoScheme == GithubHost \o FooBar \o <<"#", "v1", ".", "2", ".", "1">>

\* ./repo
LocalPath == <<".", "/", "repo">>

ArgSet == {ArgBar, ArgBarGit, ArgEscaped, ArgNoPath, ArgNoScheme, LocalPath}

Formats == {"spdx", "spdx-json", "list"}

\* git@github.com:foo/bar.git, git@gitlab.com:foo/bar.git, https://github.com/foo/bar.git
OriginSSHGithub == <<"git", "@", "github", ".", "com", ":", "foo", "/", "bar", ".", "git">>

OriginSSHGitlab == <<"git", "@", "gitlab", ".", "com", ":", "foo", "/", "bar", ".", "git">>

OriginHTTPS == HTTPSGithub \o FooBar \o DotGit

HeadHash == <<"abc123">>

LicenseMIT == [rel |-> <<>>, name |-> "LICENSE", type |-> "file", readable |-> TRUE,
               Percent |-> 100, Match |-> <<MIT>>]

CopyingPartial == [rel |-> <<>>, name |-> "COPYING", type |-> "file", readable |-> TRUE,
                   Percent |-> 50, Match |-> <<Apache>>]

\* the file lists of the trees a run meets
SampleFiles == {<<>>, <<LicenseMIT>>, <<CopyingPartial, LicenseMIT>>}

\* the trees an archive unpacks to
ServedTrees == {[git |-> FALSE, files |-> f] : f \in SampleFiles}

\* the trees of a local working copy
LocalTrees == {[git |-> TRUE, files |-> f] : f \in SampleFiles}

NoRepo == [exists |-> FALSE, hasOrigin |-> FALSE, URLs |-> <<>>, headOK |-> FALSE,
           tree |-> EmptyTree]

\* what git.PlainOpen, Remote("origin") and Head find at the local path
GitMetas ==
  {NoRepo} \cup
  [exists : {TRUE}, hasOrigin : {TRUE},
   URLs : {<<>>, <<OriginSSHGithub>>, <<OriginSSHGitlab>>, <<OriginHTTPS>>},
   headOK : BOOLEAN, tree : LocalTrees] \cup
  [exists : {TRUE}, hasOrigin : {FALSE}, URLs : {<<>>}, headOK : {TRUE}, tree : LocalTrees]

Range(s) == {s[k] : k \in 1..Len(s)}

NoClose == [set |-> FALSE, gz |-> "nil", tmpDir |-> <<>>]

\* the name os.MkdirTemp gives the n-th temporary directory
Digits == <<"1", "2", "3", "4", "5", "6", "7", "8", "9">>

TmpDir(n) == <<"/", "tmp", "/", "sbom", Digits[n]>>

RemoveAll(dsk, dir) == [d \in (DOMAIN dsk) \ {dir} |-> dsk[d]]

MkDir(dsk, dir, tree) == [d \in (DOMAIN dsk) \cup {dir} |-> IF d = dir THEN tree ELSE dsk[d]]

Init ==
  /\ args \in SeqsUpTo(ArgSet, MaxArgs) \ {<<>>}
  /\ outputFormat \in Formats
  /\ git \in (IF LocalPath \in Range(args) THEN GitMetas ELSE {NoRepo})
  /\ disk = IF git.exists THEN MkDir(<<>>, LocalPath, git.tree) ELSE <<>>
  /\ pc = "parse"
  /\ idx = 1
  /\ allRepos = <<>>
  /\ packages = <<>>
  /\ stdout = <<>>
  /\ trace = <<>>
  /\ tmpCount = 0
  /\ err = "none"
  /\ results = <<>>
  /\ walk = <<>>
  /\ wi = 1
  /\ licenses = <<>>
  /\ detected = <<<<>>, <<>>>>
  /\ lpc = "idle"

(***************************************************************************)
(* parse                                                                   *)
(***************************************************************************)
IsFilePath(repoWithRef) == HasPrefix(repoWithRef, <<"/">>) \/ HasPrefix(repoWithRef, <<".">>)

\* the replacement of the SSH form left out
RewriteSSHNone(repo) == repo

\* strings.Replace(repo, "git@github.com:", "https://github.com/", 1)
RewriteSSH(repo) ==
  Replace1(repo, <<"git", "@", "github", ".", "com", ":">>, HTTPSGithub \o <<"/">>)

\* the end of parse, from url.Parse on: [err, repo]
ParseURL(repo, readerDir, closer) ==
  LET parsed == urlParse(repo)
  IN IF parsed.err THEN [err |-> "unable to parse url", repo |-> [url |-> NoURL, dir |-> readerDir, close |-> closer]]
     ELSE IF parsed.url.Scheme = <<>> \/ parsed.url.Host = <<>> \/ parsed.url.Path = <<>>
          THEN [err |-> "url is not valid", repo |-> [url |-> parsed.url, dir |-> readerDir, close |-> closer]]
     ELSE [err |-> "none", repo |-> [url |-> parsed.url, dir |-> readerDir, close |-> closer]]

\* the file-path branch of parse, then its end: [err, repo]
ParseLocal(repoWithRef, g) ==
  LET failed(msg) == [err |-> msg, repo |-> [url |-> NoURL, dir |-> repoWithRef, close |-> NoClose]]
  IN IF ~g.exists THEN failed("unable to open repo")
     ELSE IF ~g.hasOrigin THEN failed("unable to get remote origin")
     ELSE IF Len(g.URLs) = 0 THEN failed("no remote origin")
     ELSE IF ~g.headOK THEN failed("unable to get HEAD")
     ELSE ParseURL(RewriteSSH(g.URLs[1]) \o <<"#">> \o HeadHash, repoWithRef, NoClose)

\* http.Get can send a request only to an http or https URL with a host
HttpCapable(u) ==
  LET parsed == urlParse(u)
  IN /\ ~parsed.err
     /\ parsed.url.Scheme \in {<<"http">>, <<"https">>}
     /\ parsed.url.Host # <<>>

\* the outcomes of http.Get(u) followed by the unpacking of the body
Responses(u) ==
  {[kind |-> "transport error", tree |-> EmptyTree]} \cup
  (IF HttpCapable(u)
   THEN {[kind |-> k, tree |-> EmptyTree] :
           k \in {"status not 200", "gzip error", "tar error", "extract fatal"}}
        \cup {[kind |-> "ok", tree |-> t] : t \in ServedTrees}
   ELSE {})

\* log.Fatalf replaced by a log of the error, the loop going on
ParseFailedContinue(msg) ==
  /\ pc' = pc
  /\ idx' = idx + 1
  /\ UNCHANGED <<err, allRepos>>

\* RunE when parse returns an error: log.Fatalf ends the process
ParseFailed(msg) ==
  /\ pc' = "fatal"
  /\ err' = msg
  /\ UNCHANGED <<idx, allRepos>>

\* RunE when parse returns a repository
ParseReturned(r) ==
  /\ allRepos' = Append(allRepos, r)
  /\ idx' = idx + 1
  /\ UNCHANGED <<pc, err>>

\* one iteration of RunE's loop, on a file path
RunE_ParseLocal ==
  /\ pc = "parse"
  /\ idx <= Len(args)
  /\ IsFilePath(args[idx])
  /\ LET res == ParseLocal(args[idx], git)
     IN /\ trace' = Append(trace, [op |-> "PlainOpen", target |-> args[idx], arg |-> idx])
        /\ IF res.err # "none" THEN ParseFailed(res.err) ELSE ParseReturned(res.repo)
  /\ UNCHANGED <<args, outputFormat, git, disk, packages, stdout, tmpCount, results>>
  /\ UNCHANGED licVars

\* one iteration of RunE's loop, on a remote repository
RunE_ParseRemote ==
  /\ pc = "parse"
  /\ idx <= Len(args)
  /\ ~IsFilePath(args[idx])
  /\ \/ \* os.MkdirTemp fails
        /\ trace' = Append(trace, [op |-> "MkdirTemp", target |-> <<>>, arg |-> idx])
        /\ ParseFailed("mkdirtemp")
        /\ UNCHANGED <<disk, tmpCount>>
     \/ \E resp \in Responses(args[idx]) :
          LET tmpDir == TmpDir(tmpCount + 1)
              gz == IF resp.kind \in {"tar error", "extract fatal", "ok"} THEN "open" ELSE "nil"
              closer == [set |-> TRUE, gz |-> gz, tmpDir |-> tmpDir]
              res == ParseURL(args[idx], tmpDir, closer)
          IN /\ tmpCount' = tmpCount + 1
             /\ disk' = MkDir(disk, tmpDir, resp.tree)
             /\ trace' = trace \o <<[op |-> "MkdirTemp", target |-> tmpDir, arg |-> idx],
                                    [op |-> "Get", target |-> args[idx], arg |-> idx]>>
             /\ IF resp.kind \in {"transport error", "gzip error", "tar error", "extract fatal"}
                THEN ParseFailed(resp.kind)
                ELSE IF res.err # "none" THEN ParseFailed(res.err)
                ELSE ParseReturned(res.repo)
  /\ UNCHANGED <<args, outputFormat, git, packages, stdout, results>>
  /\ UNCHANGED licVars

(***************************************************************************)
(* buildSbom and the end of RunE                                           *)
(***************************************************************************)
\* a release action that removes the directory the repository is read from
CloseRemovesDir(r, dsk) == [panic |-> FALSE, disk |-> RemoveAll(dsk, r.dir)]

\* repoWithReader.Close, with the closer parse builds: gz.Close() on the nil
\* *gzip.Reader is a nil pointer dereference
Close(r, dsk) ==
  IF ~r.close.set THEN [panic |-> FALSE, disk |-> dsk]
  ELSE IF r.close.gz = "nil" THEN [panic |-> TRUE, disk |-> dsk]
  ELSE [panic |-> FALSE, disk |-> RemoveAll(dsk, r.close.tmpDir)]

\* getLicenseFromReader with its deferred fsys.Close():
\* [panic, declared, concluded, disk]
getLicenseFromReader(r, dsk) ==
  LET lic == Detect(dsk, r.dir)
      closed == Close(r, dsk)
  IN [panic |-> closed.panic, declared |-> lic[1], concluded |-> lic[2],
      disk |-> closed.disk]

\* the package buildSbom makes of a repository, given the detected licenses
Package(u, downloadURL, name, licenseDeclared, licenseConcluded) ==
  LET version == u.Fragment
      pkg0 == [PackageName |-> name,
               PackageDownloadLocation |-> downloadURL,
               PackageLicenseConcluded |-> <<"NOASSERTION">>,
               PackageLicenseDeclared |-> <<"NONE">>,
               PackageVersion |-> <<>>]
      pkg1 == IF version # <<>> THEN [pkg0 EXCEPT !.PackageVersion = version] ELSE pkg0
      pkg2 == IF licenseDeclared # <<>>
              THEN [pkg1 EXCEPT !.PackageLicenseDeclared = licenseDeclared] ELSE pkg1
      pkg3 == IF licenseConcluded # <<>>
              THEN [pkg2 EXCEPT !.PackageLicenseConcluded = licenseConcluded] ELSE pkg2
  IN IF (u.Scheme = <<"git">> \/ HasSuffix(name, DotGit)) /\ u.Fragment # <<>>
     THEN [pkg3 EXCEPT !.PackageVersion = u.Fragment]
     ELSE pkg3

\* RunE's switch on the output format, reached when the loop over args ends
RunE_Switch ==
  /\ pc = "parse"
  /\ idx > Len(args)
  /\ IF outputFormat \in {"spdx", "spdx-json"}
     THEN pc' = "build" /\ err' = err
     ELSE pc' = "error" /\ err' = "unknown output format"
  /\ UNCHANGED <<args, outputFormat, git, disk, idx, allRepos, packages, stdout,
                 trace, tmpCount, results>>
  /\ UNCHANGED licVars

\* one iteration of buildSbom's loop
BuildSbom_Repo ==
  /\ pc = "build"
  /\ Len(packages) < Len(allRepos)
  /\ LET k == Len(packages) + 1
         r == allRepos[k]
         dl == githubUrlToDownload(r.url)
         u == [r.url EXCEPT !.Path = dl.Path]
         name == Base(u.Path)
         lic == getLicenseFromReader(r, disk)
     IN /\ allRepos' = [allRepos EXCEPT ![k].url = u]
        /\ disk' = lic.disk
        /\ IF lic.panic
           THEN pc' = "panic" /\ err' = "nil pointer dereference" /\ packages' = packages
           ELSE /\ packages' = Append(packages,
                                  Package(u, dl.download, name, lic.declared, lic.concluded))
                /\ UNCHANGED <<pc, err>>
  /\ UNCHANGED <<args, outputFormat, git, idx, stdout, trace, tmpCount, results>>
  /\ UNCHANGED licVars

\* buildSbom returns the document and RunE writes it to os.Stdout
RunE_Write ==
  /\ pc = "build"
  /\ Len(packages) = Len(allRepos)
  /\ stdout' = Append(stdout, [format |-> outputFormat, SPDXVersion |-> "SPDX-2.3",
                               DataLicense |-> "CC0-1.0", Packages |-> packages])
  /\ pc' = "done"
  /\ UNCHANGED <<args, outputFormat, git, disk, idx, allRepos, packages, trace,
                 tmpCount, err, results>>
  /\ UNCHANGED licVars

Next == RunE_ParseLocal \/ RunE_ParseRemote \/ RunE_Switch \/ BuildSbom_Repo \/ RunE_Write

Spec == Init /\ [][Next]_vars

(***************************************************************************)
(* License detection called repeatedly on the first repository parse       *)
(* returned                                                                *)
(***************************************************************************)
DetectRepeated ==
  /\ pc = "parse"
  /\ idx > Len(args)
  /\ Len(results) < MaxCalls
  /\ LET lic == getLicenseFromReader(allRepos[1], disk)
     IN /\ disk' = lic.disk
        /\ IF lic.panic
           THEN pc' = "panic" /\ err' = "nil pointer dereference" /\ results' = results
           ELSE /\ results' = Append(results, <<lic.declared, lic.concluded>>)
                /\ UNCHANGED <<pc, err>>
  /\ UNCHANGED <<args, outputFormat, git, idx, allRepos, packages, stdout, trace, tmpCount>>
  /\ UNCHANGED licVars

NextDetect == RunE_ParseLocal \/ RunE_ParseRemote \/ DetectRepeated

SpecDetect == Init /\ [][NextDetect]_vars

(***************************************************************************)
(* The walk of getLicenseFromReader, entry by entry, over every tree       *)
(***************************************************************************)
InitWalk ==
  /\ args = <<>>
  /\ outputFormat = "spdx"
  /\ git = NoRepo
  /\ disk = <<>>
  /\ pc = "idle"
  /\ idx = 1
  /\ allRepos = <<>>
  /\ packages = <<>>
  /\ stdout = <<>>
  /\ trace = <<>>
  /\ tmpCount = 0
  /\ err = "none"
  /\ results = <<>>
  /\ \E t \in Trees : walk = Entries(t)
  /\ wi = 1
  /\ licenses = <<>>
  /\ detected = <<<<>>, <<>>>>
  /\ lpc = "walk"

\* the callback is called with the next entry
WalkDir_Entry ==
  /\ lpc = "walk"
  /\ wi <= Len(walk)
  /\ LET r == WalkFn(licenses, walk[wi])
     IN /\ licenses' = r.licenses
        /\ wi' = wi + 1
        /\ IF r.err THEN lpc' = "failed" /\ detected' = <<<<>>, <<>>>>
           ELSE UNCHANGED <<lpc, detected>>
  /\ UNCHANGED walk
  /\ UNCHANGED runVars

\* fs.WalkDir returned without an error
WalkDir_Return ==
  /\ lpc = "walk"
  /\ wi > Len(walk)
  /\ detected' = Reduce(licenses)
  /\ lpc' = "done"
  /\ UNCHANGED <<walk, wi, licenses>>
  /\ UNCHANGED runVars

NextWalk == WalkDir_Entry \/ WalkDir_Return

SpecWalk == InitWalk /\ [][NextWalk]_vars

(***************************************************************************)
(* Properties                                                              *)
(***************************************************************************)
Ended == pc \in {"done", "fatal", "error", "panic"}

\* C1: with an output format other than spdx and spdx-json, no HTTP GET, no
\* creation of a temporary directory and no opening of a local repository
\* happens before the format is rejected.
C1_FormatRejectedBeforeAccess ==
  outputFormat \notin {"spdx", "spdx-json"} => trace = <<>>

\* C2: when the process has ended, on whatever path, no temporary directory
\* that parse created is left on the disk.
C2_TmpDirsRemovedAtExit ==
  Ended => \A n \in 1..tmpCount : TmpDir(n) \notin DOMAIN disk

\* the k-th repository is a remote one whose GET returned a status other
\* than 200: parse returned it with the decompression stream never opened
Non200(k) == allRepos[k].close.set /\ allRepos[k].close.gz = "nil"

\* C3: a status other than 200 does not make the run fail: license detection
\* on the empty tree and the release of the tree complete, and the package is
\* emitted with the default license fields NONE and NOASSERTION.
C3_Non200IsSoft ==
  \A k \in 1..Len(allRepos) :
    Non200(k) =>
      /\ pc # "panic"
      /\ Len(packages) >= k =>
           /\ packages[k].PackageLicenseDeclared = <<"NONE">>
           /\ packages[k].PackageLicenseConcluded = <<"NOASSERTION">>

\* C4: a recognized license file whose coverage is below the threshold adds
\* exactly one UNKNOWN finding and none of the matched identifiers.
C4_BelowThresholdOneUnknown ==
  [][(/\ lpc = "walk"
      /\ wi <= Len(walk)
      /\ Scanned(walk[wi])
      /\ walk[wi].readable
      /\ walk[wi].Percent < coverageThreshold)
     => licenses' = Append(licenses, unknownLicenseType)]_vars

\* the positions of the findings that are the first occurrence of their value
FirstSeen(lic) == {k \in 1..Len(lic) : \A j \in 1..(k - 1) : lic[j] # lic[k]}

\* the findings at those positions, in increasing order of position
Deduplicated(lic) ==
  LET I == FirstSeen(lic)
  IN [n \in 1..Cardinality(I) |->
        lic[CHOOSE k \in I : Cardinality({j \in I : j <= k}) = n]]

\* C5: for a non-empty sequence of findings, the declared license is the
\* findings without duplicates, in first-seen order, joined by " AND ", and
\* the concluded license is the first of them that is not UNKNOWN, or UNKNOWN
\* when all are; [MIT, Apache-2.0, MIT] gives "MIT AND Apache-2.0" and "MIT".
C5_DeclaredAndConcluded ==
  (lpc = "done" /\ licenses # <<>>) =>
    LET u == Deduplicated(licenses)
        known == {k \in 1..Len(u) : u[k] # <<"UNKNOWN">>}
    IN /\ Len(detected[1]) = 2 * Len(u) - 1
       /\ \A n \in 1..Len(detected[1]) :
            detected[1][n] = IF n % 2 = 1 THEN u[(n + 1) \div 2][1] ELSE " AND "
       /\ detected[2] = IF known = {} THEN <<"UNKNOWN">>
                        ELSE u[CHOOSE k \in known : \A j \in known : k <= j]
       /\ licenses = <<MIT, Apache, MIT>> =>
            detected = <<<<"MIT", " AND ", "Apache-2.0">>, <<"MIT">>>>

C5_Witness ==
  /\ lpc = "done"
  /\ licenses = <<MIT, Apache, MIT>>
  /\ detected[2] = <<"MIT">>

\* C6, as stated: two calls of getLicenseFromReader on the same repository,
\* local or remote, return the same declared and concluded strings.
C6_Idempotent ==
  Len(results) >= 2 => results[1] = results[2]

\* C6, amended: on a repository parse built from a file path, every call
\* returns the same strings; on one extracted from a remote archive the first
\* call removes the temporary directory and every later call returns empty
\* strings.
C6_LocalIdempotent ==
  Len(results) >= 2 =>
    IF ~allRepos[1].close.set
    THEN \A j, k \in 1..Len(results) : results[j] = results[k]
    ELSE \A k \in 2..Len(results) : results[k] = <<<<>>, <<>>>>

C6_Witness ==
  /\ Len(results) >= 2
  /\ ~allRepos[1].close.set
  /\ results[1][1] # <<>>
  /\ results[2] = results[1]

\* C7: nothing is written to standard output until every repository argument
\* has been resolved and the whole document assembled; a run that ends on a
\* fatal error has written nothing.
C7_NoPartialOutput ==
  /\ stdout # <<>> =>
       /\ pc = "done"
       /\ Len(stdout) = 1
       /\ Len(allRepos) = Len(args)
       /\ Len(stdout[1].Packages) = Len(args)
  /\ pc \in {"fatal", "error", "panic"} => stdout = <<>>

C7_Witness ==
  /\ pc = "fatal"
  /\ Len(allRepos) >= 1
  /\ Len(allRepos) < Len(args)
  /\ stdout = <<>>

\* the origin URL has the SSH form git@host:path
IsSSH(o) == HasPrefix(o, <<"git", "@">>) /\ Contains(o, <<":">>)

SSHHost(o) == SubSeq(o, 3, Index(o, <<":">>) - 1)

SSHPath(o) == SubSeq(o, Index(o, <<":">>) + 1, Len(o))

\* parse has handled the k-th argument
Parsed(k) == idx > k \/ (idx = k /\ pc = "fatal")

\* the k-th argument is the local path, whose origin has the SSH form and
\* whose HEAD can be read
LocalSSH(k) ==
  /\ args[k] = LocalPath
  /\ git.exists /\ git.hasOrigin /\ git.headOK
  /\ Len(git.URLs) > 0
  /\ IsSSH(git.URLs[1])

\* the URL of the k-th repository is https://host/path#HEAD for the origin
\* git@host:path; buildSbom may have removed a trailing ".git" of the path
Rewritten(k) ==
  /\ Len(allRepos) >= k
  /\ allRepos[k].url.Scheme = <<"https">>
  /\ allRepos[k].url.User = <<>>
  /\ allRepos[k].url.Host = SSHHost(git.URLs[1])
  /\ TrimSuffix(allRepos[k].url.Path, DotGit)
       = TrimSuffix(<<"/">> \o SSHPath(git.URLs[1]), DotGit)
  /\ allRepos[k].url.Fragment = HeadHash

\* C8, as stated: for an SSH-style origin on any host, the canonical URL parse
\* derives is the rewritten https://host/path, without the git@host: prefix.
C8_SSHRewrittenAnyHost ==
  \A k \in 1..Len(args) : (LocalSSH(k) /\ Parsed(k)) => Rewritten(k)

\* C8, amended: the origin git@github.com:path is rewritten to
\* https://github.com/path; an SSH-style origin on another host is not
\* rewritten, and parse fails on it with a URL parse error.
C8_SSHRewrittenGithub ==
  \A k \in 1..Len(args) :
    (LocalSSH(k) /\ Parsed(k)) =>
      IF SSHHost(git.URLs[1]) = GithubHost
      THEN Rewritten(k)
      ELSE pc = "fatal" /\ idx = k /\ err = "unable to parse url"

C8_Witness ==
  /\ LocalSSH(1)
  /\ Parsed(1)
  /\ git.URLs[1] = OriginSSHGithub
  /\ Len(allRepos) >= 1
  /\ allRepos[1].url.Host = GithubHost

\* the URL parse resolves the k-th argument to
Resolved(k) ==
  IF args[k] = LocalPath
  THEN urlParse(RewriteSSH(git.URLs[1]) \o <<"#">> \o HeadHash).url
  ELSE urlParse(args[k]).url

\* C9: the download location of a package is
\* <scheme>://<host><path>/archive/<revision>.tar.gz with a trailing ".git" of
\* the path removed, and its version is the revision fragment;
\* https://github.com/foo/bar.git#abc123 gives
\* https://github.com/foo/bar/archive/abc123.tar.gz.
C9_DownloadLocationAndVersion ==
  \A k \in 1..Len(packages) :
    LET r == Resolved(k)
        n == Len(r.Path)
        path == IF n >= 2 /\ r.Path[n - 1] = "." /\ r.Path[n] = "git"
                THEN SubSeq(r.Path, 1, n - 2) ELSE r.Path
    IN r.Fragment # <<>> =>
         /\ packages[k].PackageDownloadLocation =
              r.Scheme \o <<":", "/", "/">> \o r.Host \o path \o <<"/", "archive", "/">>
              \o r.Fragment \o <<".", "tar", ".", "gz">>
         /\ packages[k].PackageVersion = r.Fragment
         /\ args[k] = ArgBarGit =>
              /\ packages[k].PackageDownloadLocation =
                   <<"https", ":", "/", "/", "github", ".", "com", "/", "foo", "/", "bar",
                     "/", "archive", "/", "abc123", ".", "tar", ".", "gz">>
              /\ packages[k].PackageVersion = <<"abc123">>
         /\ args[k] = ArgBar =>
              /\ packages[k].PackageDownloadLocation =
                   <<"https", ":", "/", "/", "github", ".", "com", "/", "foo", "/", "bar",
                     "/", "archive", "/", "v1", ".", "2", ".", "3", ".", "tar", ".", "gz">>
              /\ packages[k].PackageVersion = <<"v1", ".", "2", ".", "3">>

C9_Witness ==
  /\ pc = "done"
  /\ args[1] = ArgBarGit
  /\ Len(packages) >= 1
  /\ packages[1].PackageVersion = <<"abc123">>

\* C10: the HTTP GET for a remote repository argument goes to the archive URL
\* derived from the argument, the package's download location, and not to the
\* argument string itself.
C10_GetToArchiveURL ==
  \A n \in 1..Len(trace) :
    trace[n].op = "Get" =>
      /\ trace[n].target = githubUrlToDownload(urlParse(args[trace[n].arg]).url).download
      /\ trace[n].target # args[trace[n].arg]

====
